---- MODULE Spec2Model ----
(***************************************************************************)
(* Model of github.com/Zemanta/money (package money, micro.go): the        *)
(* fixed-point amount Micro (int64, six fractional digits), its decimal    *)
(* parser, its formatter and its arithmetic.                               *)
(*                                                                         *)
(* Go's int64, uint64 and float64 values do not fit TLC's 32-bit integers, *)
(* so every number of the program is an arbitrary-precision natural: the   *)
(* sequence of its base-1000 limbs, most significant first                 *)
(* (<<9, 0, 0>> is 9000000, <<0>> is zero); an integer is [neg, mag].  The *)
(* fixed widths of the program's types are applied explicitly where the    *)
(* program computes (WrapUint64, WrapInt64).                               *)
(*                                                                         *)
(* A string is the sequence of its characters, each a one-character        *)
(* string: "-0.5" is <<"-", "0", ".", "5">>.                               *)
(***************************************************************************)
EXTENDS Integers, Sequences, FiniteSets, TLC

(***************************************************************************)
(* Naturals as limb sequences.                                             *)
(***************************************************************************)
Base == 10 ^ 3

Last(s) == s[Len(s)]

Front(s) == SubSeq(s, 1, Len(s) - 1)

Max(m, n) == IF m >= n THEN m ELSE n

\* a without its leading zero limbs.
RECURSIVE Norm(_)
Norm(a) ==
    IF a = <<>> THEN <<0>>
    ELSE IF Len(a) > 1 /\ Head(a) = 0 THEN Norm(Tail(a))
    ELSE a

\* The limb of weight Base^i of a (0 beyond its length).
Limb(a, i) == IF i < Len(a) THEN a[Len(a) - i] ELSE 0

NLess(a, b) ==
    \/ Len(a) < Len(b)
    \/ /\ Len(a) = Len(b)
       /\ \E i \in 1..Len(a) :
            /\ a[i] < b[i]
            /\ \A j \in 1..(i - 1) : a[j] = b[j]

NLeq(a, b) == a = b \/ NLess(a, b)

RECURSIVE AddFrom(_, _, _, _, _)
AddFrom(a, b, i, c, acc) ==
    IF i >= Len(a) /\ i >= Len(b)
    THEN (IF c = 0 THEN acc ELSE <<c>> \o acc)
    ELSE LET s == Limb(a, i) + Limb(b, i) + c
         IN  AddFrom(a, b, i + 1, s \div Base, <<s % Base>> \o acc)

NAdd(a, b) == Norm(AddFrom(a, b, 0, 0, <<>>))

RECURSIVE SubFrom(_, _, _, _, _)
SubFrom(a, b, i, c, acc) ==
    IF i >= Len(a) THEN acc
    ELSE LET s == Limb(a, i) - Limb(b, i) - c
         IN  IF s < 0
             THEN SubFrom(a, b, i + 1, 1, <<s + Base>> \o acc)
             ELSE SubFrom(a, b, i + 1, 0, <<s>> \o acc)

\* a - b for a >= b.
NSub(a, b) == Norm(SubFrom(a, b, 0, 0, <<>>))

RECURSIVE MulIntFrom(_, _, _, _, _)
MulIntFrom(a, k, i, c, acc) ==
    IF i >= Len(a)
    THEN (IF c = 0 THEN acc
          ELSE MulIntFrom(a, k, i, c \div Base, <<c % Base>> \o acc))
    ELSE LET s == Limb(a, i) * k + c
         IN  MulIntFrom(a, k, i + 1, s \div Base, <<s % Base>> \o acc)

\* a * k for an integer 0 <= k <= 2 * 10^6.
NMulInt(a, k) == Norm(MulIntFrom(a, k, 0, 0, <<>>))

RECURSIVE DivIntFrom(_, _, _, _, _)
DivIntFrom(a, k, i, q, r) ==
    IF i > Len(a) THEN <<Norm(q), r>>
    ELSE LET s == r * Base + a[i]
         IN  DivIntFrom(a, k, i + 1, Append(q, s \div k), s % k)

\* <<a div k, a mod k>> for an integer 0 < k <= 2 * 10^6; the remainder is an
\* integer.
NDivModInt(a, k) == DivIntFrom(a, k, 1, <<>>, 0)

\* a * Base^k.
NShift(a, k) == IF a = <<0>> THEN a ELSE a \o [i \in 1..k |-> 0]

RECURSIVE MulFrom(_, _, _, _)
MulFrom(a, b, i, acc) ==
    IF i > Len(b) THEN acc
    ELSE MulFrom(a, b, i + 1, NAdd(NShift(acc, 1), NMulInt(a, b[i])))

NMul(a, b) == MulFrom(a, b, 1, <<0>>)

\* The natural of an integer 0 <= k < Base^3, and back.
NOfInt(k) == Norm(<<k \div (Base * Base), (k \div Base) % Base, k % Base>>)

IntOfN(a) == Limb(a, 2) * Base * Base + Limb(a, 1) * Base + Limb(a, 0)

\* The largest q in lo..hi with b * q <= r, given b * lo <= r.
RECURSIVE QuoLimb(_, _, _, _)
QuoLimb(r, b, lo, hi) ==
    IF lo = hi THEN lo
    ELSE LET mid == (lo + hi + 1) \div 2
         IN  IF NLeq(NMulInt(b, mid), r)
             THEN QuoLimb(r, b, mid, hi)
             ELSE QuoLimb(r, b, lo, mid - 1)

\* The integer of the n leading limbs of a, of which a has at least n, n <= 3.
Lead(a, n) == IF n = 0 THEN 0 ELSE IntOfN(SubSeq(a, 1, n))

Min(m, n) == IF m <= n THEN m ELSE n

\* The quotient limb r div b for r < b * Base: its bounds come from the two
\* leading limbs of b and the limbs of r above them.
QuoEstimate(r, b) ==
    LET nb == Min(Len(b), 2)
        bt == Lead(b, nb)
        nr == Len(r) - (Len(b) - nb)
        rt == IF nr <= 0 THEN 0 ELSE Lead(r, nr)
    IN  QuoLimb(r, b, Min(Base - 1, rt \div (bt + 1)),
                      Min(Base - 1, (rt + 1) \div bt))

RECURSIVE DivModFrom(_, _, _, _, _)
DivModFrom(a, b, i, q, r) ==
    IF i > Len(a) THEN <<Norm(q), r>>
    ELSE LET r1 == Norm(Append(r, a[i]))
             d  == QuoEstimate(r1, b)
         IN  DivModFrom(a, b, i + 1, Append(q, d), NSub(r1, NMulInt(b, d)))

\* <<a div b, a mod b>> for b > 0.  The leading Len(b) - 1 limbs of a are
\* below b, so the long division starts after them.
NDivMod(a, b) ==
    IF Len(a) < Len(b) THEN <<<<0>>, a>>
    ELSE DivModFrom(a, b, Len(b), <<>>, Norm(SubSeq(a, 1, Len(b) - 1)))

(***************************************************************************)
(* Integers: sign and magnitude.                                           *)
(***************************************************************************)
ZOf(neg, mag) == [neg |-> neg /\ mag # <<0>>, mag |-> mag]

ZNat(mag) == ZOf(FALSE, mag)

ZNeg(x) == ZOf(~x.neg, x.mag)

ZAdd(x, y) ==
    IF x.neg = y.neg THEN ZOf(x.neg, NAdd(x.mag, y.mag))
    ELSE IF NLess(x.mag, y.mag) THEN ZOf(y.neg, NSub(y.mag, x.mag))
    ELSE ZOf(x.neg, NSub(x.mag, y.mag))

ZSub(x, y) == ZAdd(x, ZNeg(y))

ZMul(x, y) == ZOf(x.neg # y.neg, NMul(x.mag, y.mag))

\* Division truncated toward zero and its remainder, for y # 0.
ZQuo(x, y) == ZOf(x.neg # y.neg, NDivMod(x.mag, y.mag)[1])

ZRem(x, y) == ZOf(x.neg, NDivMod(x.mag, y.mag)[2])

ZLess(x, y) ==
    IF x.neg /\ ~y.neg THEN TRUE
    ELSE IF ~x.neg /\ y.neg THEN FALSE
    ELSE IF x.neg THEN NLess(y.mag, x.mag)
    ELSE NLess(x.mag, y.mag)

ZLeq(x, y) == x = y \/ ZLess(x, y)

ZZero == ZNat(<<0>>)

ZOne == ZNat(<<1>>)

(***************************************************************************)
(* Go's fixed-width integers.                                              *)
(***************************************************************************)
TwoPow32 == <<4, 294, 967, 296>>

TwoPow64 == NMul(TwoPow32, TwoPow32)

TwoPow63 == NDivModInt(TwoPow64, 2)[1]

MaxInt64 == ZNat(NSub(TwoPow63, <<1>>))

MinInt64 == ZOf(TRUE, TwoPow63)

\* A natural reduced to 64 bits.
WrapUint64(n) == IF NLess(n, TwoPow64) THEN n ELSE NDivMod(n, TwoPow64)[2]

\* uint64(z): the two's-complement bits of an integer.
Uint64OfZ(z) ==
    LET m == WrapUint64(z.mag)
    IN  IF z.neg /\ m # <<0>> THEN NSub(TwoPow64, m) ELSE m

\* int64(z): the integer those bits stand for.
WrapInt64(z) ==
    LET u == Uint64OfZ(z)
    IN  IF NLess(u, TwoPow63) THEN ZNat(u) ELSE ZOf(TRUE, NSub(TwoPow64, u))

IsInt64(z) == ZLeq(MinInt64, z) /\ ZLeq(z, MaxInt64)

(***************************************************************************)
(* micro.go: constants, errors, bounds.                                    *)
(***************************************************************************)
precisionExp == 6

precision == ZNat(<<1, 000, 000>>)

largestAmount == ZNat(<<9, 000, 000, 000, 000, 000>>)

smallestAmount == ZOf(TRUE, <<9, 000, 000, 000, 000, 000>>)

nil == "nil"

ErrOverBounds == "ErrOverBounds"

ErrInvalidInput == "ErrInvalidInput"

\* A Go result pair (value, error).
Result(val, err) == [val |-> val, err |-> err]

\* checkNumberBounds testing the largest amount only.
checkNumberBoundsAbove(amount) ==
    IF ZLess(largestAmount, amount) THEN ErrOverBounds ELSE nil

\* Lines 151-157.
checkNumberBounds(amount) ==
    IF ZLess(amount, smallestAmount) \/ ZLess(largestAmount, amount)
    THEN ErrOverBounds
    ELSE nil

(***************************************************************************)
(* Characters.                                                             *)
(***************************************************************************)
DigitChar == <<"0", "1", "2", "3", "4", "5", "6", "7", "8", "9">>

\* c >= '0' && c <= '9'
IsDigit(c) == \E d \in 0..9 : DigitChar[d + 1] = c

\* c - '0'
DigitVal(c) == CHOOSE d \in 0..9 : DigitChar[d + 1] = c

\* The string of a sequence of digit values.
Chars(ds) == [i \in 1..Len(ds) |-> DigitChar[ds[i] + 1]]

\* The natural a sequence of digit values spells.
NOfDigits(ds) ==
    LET p == [i \in 1..((3 - (Len(ds) % 3)) % 3) |-> 0] \o ds
    IN  Norm([i \in 1..(Len(p) \div 3) |->
                100 * p[3 * i - 2] + 10 * p[3 * i - 1] + p[3 * i]])

(***************************************************************************)
(* parseFloatStringInt: the exact parser.  Its locals are a record; err is *)
(* nil until the function returns early with an error.                     *)
(***************************************************************************)
ScanInit(amount) ==
    [result |-> <<0>>,
     sign |-> IF amount[1] = "-" THEN -1 ELSE 1,
     digitsFound |-> FALSE,
     significantDigitFound |-> FALSE,
     dotFound |-> FALSE,
     decimalPartLength |-> 0,
     i |-> IF amount[1] \in {"+", "-"} THEN 2 ELSE 1,
     err |-> nil]

\* The magnitude the accumulator may hold for a sign (line 253).
FitsSigned(sign, newResult) ==
    ~ \/ sign = 1 /\ NLess(NSub(TwoPow63, <<1>>), newResult)
      \/ sign = -1 /\ NLess(TwoPow63, newResult)

\* Accumulate without the comparison after the addition (lines 247-250).
AccumulateNoAddCheck(st, c) ==
    LET newResult == WrapUint64(NMulInt(st.result, 10))
        withDigit == WrapUint64(NAdd(newResult, <<DigitVal(c)>>))
    IN  IF st.result # NDivModInt(newResult, 10)[1]
        THEN [st EXCEPT !.err = ErrOverBounds]
        ELSE IF ~FitsSigned(st.sign, withDigit)
        THEN [st EXCEPT !.err = ErrOverBounds]
        ELSE [st EXCEPT !.decimalPartLength = IF st.dotFound THEN @ + 1 ELSE @,
                        !.result = withDigit]

\* Lines 240-261: one digit into the accumulator.
Accumulate(st, c) ==
    LET newResult == WrapUint64(NMulInt(st.result, 10))
        withDigit == WrapUint64(NAdd(newResult, <<DigitVal(c)>>))
    IN  IF st.result # NDivModInt(newResult, 10)[1]
        THEN [st EXCEPT !.err = ErrOverBounds]
        ELSE IF NLess(withDigit, WrapUint64(NMulInt(st.result, 10)))
        THEN [st EXCEPT !.err = ErrOverBounds]
        ELSE IF ~FitsSigned(st.sign, withDigit)
        THEN [st EXCEPT !.err = ErrOverBounds]
        ELSE [st EXCEPT !.decimalPartLength = IF st.dotFound THEN @ + 1 ELSE @,
                        !.result = withDigit]

\* ScanChar skipping the first digit of the integer part whatever it is.
ScanCharFirstSkipped(st, c) ==
    IF c = "."
    THEN IF st.dotFound
         THEN [st EXCEPT !.err = ErrInvalidInput]
         ELSE [st EXCEPT !.dotFound = TRUE]
    ELSE IF IsDigit(c)
    THEN IF ~st.significantDigitFound /\ ~st.dotFound
         THEN [st EXCEPT !.digitsFound = TRUE, !.significantDigitFound = TRUE]
         ELSE IF st.decimalPartLength = precisionExp + 1
         THEN [st EXCEPT !.digitsFound = TRUE, !.significantDigitFound = TRUE]
         ELSE Accumulate([st EXCEPT !.digitsFound = TRUE,
                                    !.significantDigitFound = TRUE], c)
    ELSE [st EXCEPT !.err = ErrInvalidInput]

\* Lines 220-264: the loop body for the character c.
ScanChar(st, c) ==
    IF c = "."
    THEN IF st.dotFound
         THEN [st EXCEPT !.err = ErrInvalidInput]
         ELSE [st EXCEPT !.dotFound = TRUE]
    ELSE IF IsDigit(c)
    THEN IF ~st.significantDigitFound /\ ~st.dotFound /\ c = "0"
         THEN [st EXCEPT !.digitsFound = TRUE]
         ELSE IF st.decimalPartLength = precisionExp + 1
         THEN [st EXCEPT !.digitsFound = TRUE, !.significantDigitFound = TRUE]
         ELSE Accumulate([st EXCEPT !.digitsFound = TRUE,
                                    !.significantDigitFound = TRUE], c)
    ELSE [st EXCEPT !.err = ErrInvalidInput]

\* Lines 272-280: round on the seventh fractional digit, then drop it.
RoundSeventh(result) ==
    LET newResult == WrapUint64(NAdd(result, <<10>>))
        rounded == IF NDivModInt(result, 10)[2] >= 5 /\ NLess(result, newResult)
                   THEN newResult
                   ELSE result
    IN  NDivModInt(rounded, 10)[1]

\* Lines 282-289: n more multiplications by 10; ok is FALSE when one wraps.
RECURSIVE Normalise(_, _)
Normalise(result, n) ==
    IF n <= 0 THEN [ok |-> TRUE, result |-> result]
    ELSE LET newResult == WrapUint64(NMulInt(result, 10))
         IN  IF result # NDivModInt(newResult, 10)[1]
             THEN [ok |-> FALSE, result |-> result]
             ELSE Normalise(newResult, n - 1)

\* Lines 292-297: the sign, the bounds, the result.
Signed(result, sign) ==
    LET resultSigned ==
            WrapInt64(ZMul(WrapInt64(ZNat(result)),
                           IF sign = 1 THEN ZOne ELSE ZNeg(ZOne)))
    IN  IF checkNumberBounds(resultSigned) # nil
        THEN Result(ZZero, checkNumberBounds(resultSigned))
        ELSE Result(resultSigned, nil)

\* Lines 266-297: after the loop.
ScanEnd(st) ==
    IF ~st.digitsFound THEN Result(ZZero, ErrInvalidInput)
    ELSE IF st.decimalPartLength > precisionExp
    THEN Signed(RoundSeventh(st.result), st.sign)
    ELSE LET scaled == Normalise(st.result, precisionExp - st.decimalPartLength)
         IN  IF ~scaled.ok
             THEN Result(ZZero, ErrOverBounds)
             ELSE Signed(scaled.result, st.sign)

\* Lines 219-265: the loop from the character at st.i.
RECURSIVE ScanFrom(_, _)
ScanFrom(amount, st) ==
    IF st.err # nil \/ st.i > Len(amount) THEN st
    ELSE ScanFrom(amount, [ScanChar(st, amount[st.i]) EXCEPT !.i = @ + 1])

parseFloatStringInt(amount) ==
    IF Len(amount) = 0 THEN Result(ZZero, ErrInvalidInput)
    ELSE LET st == ScanFrom(amount, ScanInit(amount))
         IN  IF st.err # nil THEN Result(ZZero, st.err) ELSE ScanEnd(st)

(***************************************************************************)
(* Go's int64 arithmetic: the exact result reduced to 64 bits.  x / -1 for *)
(* the most negative x is x (Go specification, Integer overflow); the      *)
(* callers decide what a zero divisor does.                                *)
(***************************************************************************)
I64Add(x, y) == WrapInt64(ZAdd(x, y))

I64Sub(x, y) == WrapInt64(ZSub(x, y))

I64Mul(x, y) == WrapInt64(ZMul(x, y))

I64Neg(x) == WrapInt64(ZNeg(x))

I64Quo(x, y) == WrapInt64(ZQuo(x, y))

I64Rem(x, y) == WrapInt64(ZRem(x, y))

(***************************************************************************)
(* ToFloatString: the formatter.                                           *)
(***************************************************************************)
\* The decimal digits of a natural, without leading zeros.
DecimalDigits(n) ==
    Norm([i \in 1..(3 * Len(n)) |->
            LET k == n[(i + 2) \div 3]
            IN  <<k \div 100, (k \div 10) % 10, k % 10>>[((i - 1) % 3) + 1]])

\* strconv.FormatInt(v, 10)
FormatInt(v) ==
    (IF v.neg THEN <<"-">> ELSE <<>>) \o Chars(DecimalDigits(v.mag))

\* fmt.Sprintf("%06d", v) for v >= 0
Sprintf06d(v) ==
    LET ds == DecimalDigits(v.mag)
    IN  Chars([i \in 1..(6 - Len(ds)) |-> 0] \o ds)

\* No trimming at all.
TrimRightZerosKept(str) == str

\* strings.TrimRight(str, "0")
RECURSIVE TrimRightZeros(_)
TrimRightZeros(str) ==
    IF str # <<>> /\ Last(str) = "0" THEN TrimRightZeros(Front(str)) ELSE str

\* The "-" written for every negative remainder, whatever the integer
\* part.
LostSignAlways(decimal, rem) == IF ZLess(rem, ZZero) THEN <<"-">> ELSE <<>>

\* No "-" written for a negative remainder.
LostSignNever(decimal, rem) == <<>>

\* Lines 90-97: the "-" that the division loses, -999999 / 1000000 being 0.
LostSign(decimal, rem) ==
    IF ZLess(rem, ZZero) /\ decimal = ZZero THEN <<"-">> ELSE <<>>

\* Lines 100-112: the fraction after the integer part, trimmed.
WithFraction(buffer, fraction) ==
    IF ZLess(ZZero, fraction)
    THEN TrimRightZeros(buffer \o <<".">> \o Sprintf06d(fraction))
    ELSE buffer

\* Lines 88-112: the string of the integer part and the remainder.
Buffered(decimal, rem) ==
    WithFraction(LostSign(decimal, rem) \o FormatInt(decimal),
                 IF ZLess(rem, ZZero) THEN I64Neg(rem) ELSE rem)

\* Lines 80-113.
ToFloatString(amount) ==
    IF checkNumberBounds(amount) # nil
    THEN Result(<<>>, ErrOverBounds)
    ELSE Result(Buffered(I64Quo(amount, precision), I64Rem(amount, precision)),
                nil)

\* Lines 33-36 and 69-73: nil and the error, or the string and nil.
NilOnError(r) == IF r.err # nil THEN Result(<<>>, r.err) ELSE Result(r.val, nil)

\* Lines 31-37: the bytes of the string, or nil and the error.
MarshalJSON(micro) == NilOnError(ToFloatString(micro))

\* Lines 67-74: the string as a driver value, or nil and the error.
Value(micro) == NilOnError(ToFloatString(micro))

(***************************************************************************)
(* float64 (IEEE 754 binary64, round to nearest, ties to even).  A value   *)
(* is [kind, neg, m, e]:                                                   *)
(*   "finite"  the number m * 2^e, m <= 2^53, e >= -1074, computed exactly *)
(*   "huge"    a finite or infinite value of magnitude at least 10^25      *)
(*   "tiny"    a value of magnitude below 10^-23, possibly zero            *)
(*   "inf"     an infinity                                                 *)
(*   "nan"     not a number                                                *)
(* The bits of a huge or a tiny value are not computed: the program only   *)
(* multiplies a parsed value by 10^6, adds or subtracts 0.5 and converts   *)
(* to int64, and what that gives is the same for every huge value and for  *)
(* every tiny one.                                                         *)
(***************************************************************************)
RECURSIVE Pow2(_)
Pow2(k) == IF k < 20 THEN NOfInt(2 ^ k) ELSE NMulInt(Pow2(k - 20), 2 ^ 20)

Pow10(k) == NMulInt(NShift(<<1>>, k \div 3), 10 ^ (k % 3))

TwoPow52 == Pow2(52)

TwoPow53 == Pow2(53)

FFinite(neg, m, e) == [kind |-> "finite", neg |-> neg, m |-> m, e |-> e]

FHuge(neg) == [kind |-> "huge", neg |-> neg, m |-> <<0>>, e |-> 0]

FTiny(neg) == [kind |-> "tiny", neg |-> neg, m |-> <<0>>, e |-> 0]

FInf(neg) == [kind |-> "inf", neg |-> neg, m |-> <<0>>, e |-> 0]

FNaN == [kind |-> "nan", neg |-> FALSE, m |-> <<0>>, e |-> 0]

\* The number of bits of n > 0: the k with 2^(k-1) <= n < 2^k, found near
\* the estimate the leading limb and the number of limbs give
\* (log2 1000 = 9.965...).
BitLen(n) ==
    LET b  == CHOOSE i \in 1..10 : 2 ^ (i - 1) <= n[1] /\ n[1] < 2 ^ i
        lo == b + ((Len(n) - 1) * 9965) \div 1000
    IN  CHOOSE k \in lo..(lo + 2) : NLeq(Pow2(k - 1), n) /\ NLess(n, Pow2(k))

\* num * 2^sh / den as a pair <<numerator, denominator>>.
Shifted(num, den, sh) ==
    IF sh >= 0 THEN <<NMul(num, Pow2(sh)), den>>
    ELSE <<num, NMul(den, Pow2(-sh))>>

\* The float64 m * 2^e of a rounded mantissa m <= 2^53: an infinity beyond
\* the largest exponent.
Packed(neg, m, e) ==
    IF e > 971 \/ (e = 971 /\ m = TwoPow53) THEN FInf(neg) ELSE FFinite(neg, m, e)

\* Whether the quotient q, left with a remainder of twice / 2 by the divisor
\* d, rounds up: more than half, or half with q odd.
RoundsUp(q, twice, d) == NLess(d, twice) \/ (twice = d /\ Last(q) % 2 = 1)

\* The quotient of qr = <<quotient, remainder>> by d, rounded to nearest,
\* ties to even.
RoundedQuotient(qr, d) ==
    IF RoundsUp(qr[1], NMulInt(qr[2], 2), d) THEN NAdd(qr[1], <<1>>) ELSE qr[1]

\* The float64 of the rounded quotient nd[1] / nd[2] times 2^e.
RoundShifted(neg, nd, e) ==
    Packed(neg, RoundedQuotient(NDivMod(nd[1], nd[2]), nd[2]), e)

\* The shift that brings num * 2^sh / den into [2^52, 2^53), which is sh1 or
\* sh1 - 1 for sh1 = 53 - (BitLen(num) - BitLen(den)).
Below53(nd) == NLess(nd[1], NMul(nd[2], TwoPow53))

NormalShift(num, den, sh1) ==
    IF Below53(Shifted(num, den, sh1)) THEN sh1 ELSE sh1 - 1

RoundAt(neg, num, den, e0, sh) ==
    RoundShifted(neg, Shifted(num, den, sh), e0 - sh)

\* The float64 nearest to (num / den) * 2^e0, ties to even: with sh the shift
\* that brings num * 2^sh / den into [2^52, 2^53) (less for a subnormal
\* number, whose exponent stays -1074), that quotient rounded to an integer
\* m, and the value m * 2^(e0 - sh).
RoundRat(neg, num, den, e0) ==
    IF num = <<0>> THEN FFinite(neg, <<0>>, 0)
    ELSE RoundAt(neg, num, den, e0,
                 Min(NormalShift(num, den, 53 - (BitLen(num) - BitLen(den))),
                     e0 + 1074))

\* x * float64(precision)
FMulPrecision(x) ==
    IF x.kind # "finite" THEN x
    ELSE RoundRat(x.neg, NMul(x.m, precision.mag), <<1>>, x.e)

\* The float64 nearest to m * 2^e + 1/2, with the sign neg.
AddHalf(neg, m, e) ==
    RoundRat(neg,
             IF e >= 0 THEN NAdd(NMul(m, Pow2(e + 1)), <<1>>)
             ELSE NAdd(m, Pow2(-e - 1)),
             <<1>>,
             Min(e, -1))

\* x < 0 (false for -0 and for NaN).
FNegative(x) ==
    /\ x.neg
    /\ x.kind \in {"finite", "huge", "inf"}
    /\ x.kind = "finite" => x.m # <<0>>

\* Lines 185-189: if result < 0 { result -= 0.5 } else { result += 0.5 }.
\* A tiny value times 10^6 is below 2^-55, less than half the distance from
\* 0.5 to its neighbours: the sum is 0.5 (-0.5 for a negative value).
FRoundingStep(x) ==
    IF x.kind = "finite" THEN AddHalf(FNegative(x), x.m, x.e)
    ELSE IF x.kind = "tiny" THEN FFinite(x.neg, <<1>>, -1)
    ELSE x

\* Lines 183-189 with the multiplication and the addition fused into one
\* operation with a single rounding, which the Go specification
\* (Floating-point operators) lets a build do.
FFusedRoundingStep(x) ==
    IF x.kind = "finite"
    THEN AddHalf(FNegative(x), NMul(x.m, precision.mag), x.e)
    ELSE FRoundingStep(x)

\* The integer part of m * 2^e.
Truncated(m, e) ==
    IF e >= 0 THEN NMul(m, Pow2(e)) ELSE NDivMod(m, Pow2(-e))[1]

\* What int64(x) may be for an x that is no int64: the value is
\* implementation-dependent (Go specification, Conversions): the most
\* negative int64 (amd64), or the nearest int64 (arm64).
OutOfInt64(neg) == {MinInt64, IF neg THEN MinInt64 ELSE MaxInt64}

Int64OfInteger(z) == IF IsInt64(z) THEN {z} ELSE OutOfInt64(z.neg)

\* int64(x): truncation toward zero; of NaN, the most negative int64 (amd64)
\* or 0 (arm64).
Int64OfFloat(x) ==
    IF x.kind = "nan" THEN {MinInt64, ZZero}
    ELSE IF x.kind \in {"inf", "huge"} \/ x.e > 64 THEN OutOfInt64(x.neg)
    ELSE Int64OfInteger(ZOf(x.neg, Truncated(x.m, x.e)))

(***************************************************************************)
(* strconv.ParseFloat(s, 64) for strings of signs, decimal digits, '.',    *)
(* letters and other characters that are not '_'; a string that starts a   *)
(* hexadecimal mantissa ("0x") is not among the inputs of this model.      *)
(***************************************************************************)
\* The ASCII lower case of the letters of "infinity" and "nan".
ToLower(s) ==
    [i \in 1..Len(s) |->
        CASE s[i] = "I" -> "i" [] s[i] = "N" -> "n" [] s[i] = "F" -> "f"
          [] s[i] = "T" -> "t" [] s[i] = "Y" -> "y" [] s[i] = "A" -> "a"
          [] OTHER -> s[i]]

\* The characters of a TLA+ string.
Str(s) == [i \in 1..Len(s) |-> SubSeq(s, i, i)]

HasSign(s) == s # <<>> /\ s[1] \in {"+", "-"}

Unsigned(s) == IF HasSign(s) THEN Tail(s) ELSE s

\* strconv's special: "inf" and "infinity" with an optional sign, "nan"
\* without one, in any letter case; the whole string has to be the token.
IsInfToken(s) == ToLower(Unsigned(s)) \in {Str("inf"), Str("infinity")}

IsNaNToken(s) == ToLower(s) = Str("nan")

\* strconv's readFloat, the mantissa: the digits and at most one '.' that
\* follow the sign; MantEnd is the index of the first character after it.
MantEnd(u) ==
    CHOOSE i \in 1..(Len(u) + 1) :
        /\ \A j \in 1..(i - 1) :
             \/ IsDigit(u[j])
             \/ u[j] = "." /\ \A k \in 1..(j - 1) : u[k] # "."
        /\ \/ i = Len(u) + 1
           \/ ~IsDigit(u[i]) /\ u[i] # "."
           \/ u[i] = "." /\ \E k \in 1..(i - 1) : u[k] = "."

\* The digit values of the digits of a string, in order.
DigitsOf(str) ==
    LET idx == {i \in 1..Len(str) : IsDigit(str[i])}
    IN  [k \in 1..Cardinality(idx) |->
            DigitVal(str[CHOOSE i \in idx :
                            Cardinality({j \in idx : j <= i}) = k])]

\* The number of digits after the '.' of a mantissa.
FractionLength(mant) ==
    IF \E i \in 1..Len(mant) : mant[i] = "."
    THEN Len(mant) - (CHOOSE i \in 1..Len(mant) : mant[i] = ".")
    ELSE 0

\* readFloat's exponent loop: if e < 10000 { e = e*10 + digit }.
RECURSIVE ExponentFrom(_, _, _)
ExponentFrom(ds, i, e) ==
    IF i > Len(ds) THEN e
    ELSE ExponentFrom(ds, i + 1, IF e < 10000 THEN e * 10 + ds[i] ELSE e)

\* The exponent part x, the characters after 'e': [ok, e].
Exponent(x) ==
    LET ds == Unsigned(x)
    IN  IF ds = <<>> \/ \E i \in 1..Len(ds) : ~IsDigit(ds[i])
        THEN [ok |-> FALSE, e |-> 0]
        ELSE [ok |-> TRUE,
              e  |-> (IF x[1] = "-" THEN -1 ELSE 1)
                       * ExponentFrom(DigitsOf(ds), 1, 0)]

\* The least decimal magnitude that rounds to an infinity: 2^1024 - 2^970,
\* halfway between the largest float64 and 2^1024.
HalfwayToInf ==
    <<179, 769, 313, 486, 231, 580, 793, 728, 971, 405, 303, 415, 79, 934,
      132, 710, 37, 826, 936, 173, 778, 980, 444, 968, 292, 764, 750, 946,
      649, 17, 977, 587, 207, 96, 330, 286, 416, 692, 887, 910, 946, 555,
      547, 851, 940, 402, 630, 657, 488, 671, 505, 820, 681, 908, 902, 0,
      708, 383, 676, 273, 854, 845, 817, 711, 531, 764, 475, 730, 270, 69,
      855, 571, 366, 959, 622, 842, 914, 819, 860, 834, 936, 475, 292, 719,
      74, 168, 444, 365, 510, 704, 342, 711, 559, 699, 508, 93, 42, 880,
      177, 904, 174, 497, 792>>

\* A sequence of digits without its leading zeros.
Significant(ds) ==
    IF \A i \in 1..Len(ds) : ds[i] = 0 THEN <<>>
    ELSE SubSeq(ds, CHOOSE i \in 1..Len(ds) :
                        ds[i] # 0 /\ \A j \in 1..(i - 1) : ds[j] = 0,
                    Len(ds))

\* Whether 0.d1 d2 ... dn * 10^309 is HalfwayToInf or more.
RoundsToInf(sig) ==
    NLeq(HalfwayToInf,
         NOfDigits([i \in 1..309 |-> IF i <= Len(sig) THEN sig[i] ELSE 0]))

\* The float64 of the decimal 0.d1 d2 ... dn * 10^pos with d1 # 0, and the
\* error ParseFloat returns with it.
DecimalToFloat(neg, sig, pos) ==
    IF pos > 309 \/ (pos = 309 /\ RoundsToInf(sig))
    THEN [f |-> FInf(neg), err |-> "ErrRange"]
    ELSE IF pos > 25 THEN [f |-> FHuge(neg), err |-> nil]
    ELSE IF pos < -22 THEN [f |-> FTiny(neg), err |-> nil]
    ELSE [f |-> RoundRat(neg,
                         IF pos >= Len(sig)
                         THEN NMul(NOfDigits(sig), Pow10(pos - Len(sig)))
                         ELSE NOfDigits(sig),
                         IF pos >= Len(sig) THEN <<1>> ELSE Pow10(Len(sig) - pos),
                         0),
          err |-> nil]

SyntaxError == [f |-> FFinite(FALSE, <<0>>, 0), err |-> "ErrSyntax"]

\* The value of the digits ds with fl of them after the '.', times 10^e.
ParseDigits(neg, sig, fl, e) ==
    IF sig = <<>> THEN [f |-> FFinite(neg, <<0>>, 0), err |-> nil]
    ELSE DecimalToFloat(neg, sig, Len(sig) - fl + e)

\* readFloat after the mantissa: nothing, or 'e' and an exponent.
ExponentOf(rest) ==
    IF rest = <<>> THEN [ok |-> TRUE, e |-> 0]
    ELSE IF rest[1] \in {"e", "E"} THEN Exponent(Tail(rest))
    ELSE [ok |-> FALSE, e |-> 0]

ParseParts(neg, ds, fl, ex) ==
    IF ds = <<>> \/ ~ex.ok THEN SyntaxError
    ELSE ParseDigits(neg, Significant(ds), fl, ex.e)

ParseDecimal(neg, mant, rest) ==
    ParseParts(neg, DigitsOf(mant), FractionLength(mant), ExponentOf(rest))

ParseUnsigned(neg, u, me) ==
    ParseDecimal(neg, SubSeq(u, 1, me - 1), SubSeq(u, me, Len(u)))

\* strconv.ParseFloat(s, 64): [f, err] with err nil, "ErrSyntax" or
\* "ErrRange".
ParseFloat(s) ==
    IF IsInfToken(s) THEN [f |-> FInf(s[1] = "-"), err |-> nil]
    ELSE IF IsNaNToken(s) THEN [f |-> FNaN, err |-> nil]
    ELSE ParseUnsigned(s # <<>> /\ s[1] = "-", Unsigned(s), MantEnd(Unsigned(s)))

(***************************************************************************)
(* micro.go: the floating-point parser and the parser's entry points.      *)
(***************************************************************************)
\* Lines 183-189: the values the build may compute for result.
ScaledAndRounded(f) ==
    {FRoundingStep(FMulPrecision(f)), FFusedRoundingStep(f)}

\* Lines 190-194 for one value of resultInt.
CheckedResult(resultInt) ==
    IF checkNumberBounds(resultInt) # nil
    THEN Result(ZZero, checkNumberBounds(resultInt))
    ELSE Result(resultInt, nil)

\* Lines 173-194 for ParseFloat's result: the results parseFloatStringFloat
\* may return, one for each value the floating-point operations and the
\* conversion to int64 may produce.
FloatResults(parsed) ==
    IF parsed.err = "ErrRange" THEN {Result(ZZero, ErrOverBounds)}
    ELSE IF parsed.err # nil THEN {Result(ZZero, ErrInvalidInput)}
    ELSE {CheckedResult(resultInt) :
            resultInt \in UNION {Int64OfFloat(result) :
                                    result \in ScaledAndRounded(parsed.f)}}

parseFloatStringFloat(amount) == FloatResults(ParseFloat(amount))

\* Lines 163-168 for the exact parser's result.
WithFallback(amount, exact) ==
    IF exact.err # nil THEN parseFloatStringFloat(amount) ELSE {exact}

\* The results parseFloatString may return.
parseFloatString(amount) ==
    IF Len(amount) = 0 THEN {Result(ZZero, ErrInvalidInput)}
    ELSE WithFallback(amount, parseFloatStringInt(amount))

FromFloatString(amount) == parseFloatString(amount)

(***************************************************************************)
(* Arithmetic.  DivideAndRound is micro.go's; Add, Mul and ErrOverflow are *)
(* used by the tests (micro_test.go, TestAdd) but not defined in micro.go: *)
(* they follow the specification's section 4.3.                            *)
(***************************************************************************)
ErrOverflow == "ErrOverflow"

ZTwo == ZNat(<<2>>)

\* add(a, b) without the check of the signs.
AddUnchecked(a, b) == Result(I64Add(a, b), nil)

\* add(a, b): native signed addition; both operands negative and the result
\* non-negative, or both positive and the result non-positive: Overflow.
Add(a, b) ==
    LET c == I64Add(a, b)
    IN  IF \/ ZLess(a, ZZero) /\ ZLess(b, ZZero) /\ ZLeq(ZZero, c)
           \/ ZLess(ZZero, a) /\ ZLess(ZZero, b) /\ ZLeq(c, ZZero)
        THEN Result(ZZero, ErrOverflow)
        ELSE Result(c, nil)

\* multiply(amount, scalar): a zero scalar yields zero; otherwise the native
\* product, divided back by the scalar and compared to the amount.
Mul(a, b) ==
    IF b = ZZero THEN Result(ZZero, nil)
    ELSE LET c == I64Mul(a, b)
         IN  IF I64Quo(c, b) # a
             THEN Result(ZZero, ErrOverflow)
             ELSE Result(c, nil)

\* a < 0 or b < 0 but not both (line 145).
SignsDiffer(a, b) ==
    /\ ZLess(a, ZZero) \/ ZLess(b, ZZero)
    /\ ~(ZLess(a, ZZero) /\ ZLess(b, ZZero))

\* DivideAndRound adding half the divisor whatever the signs.
DivideAndRoundOneBranch(a, b) == I64Quo(I64Add(a, I64Quo(b, ZTwo)), b)

\* DivideAndRound adding the whole divisor instead of half of it.
DivideAndRoundWholeDivisor(a, b) ==
    IF SignsDiffer(a, b)
    THEN I64Quo(I64Sub(a, b), b)
    ELSE I64Quo(I64Add(a, b), b)

\* Lines 144-149, for b # 0.  With b = 0 the division of line 146 or 148 is
\* a run-time panic (integer divide by zero): see CallDivideAndRound.
DivideAndRound(a, b) ==
    IF SignsDiffer(a, b)
    THEN I64Quo(I64Sub(a, I64Quo(b, ZTwo)), b)
    ELSE I64Quo(I64Add(a, I64Quo(b, ZTwo)), b)

(***************************************************************************)
(* The inputs of the model.                                                *)
(***************************************************************************)
\* The most zeros put in front of a literal's integer part.
MaxZeros == 1

\* The most digits put after a literal's seventh fractional digit.
MaxExtra == 1

\* The most calls of one run.
MaxCalls == 2

Signs == {<<>>, <<"+">>, <<"-">>}

ZeroPrefixes == {[i \in 1..z |-> "0"] : z \in 0..MaxZeros}

\* Integer parts: none, small ones, the bound of the amounts and its
\* neighbours, and the magnitudes around 2^63 and 2^64, unscaled and scaled.
IntParts ==
    {Str(s) : s \in {"", "0", "1", "22", "8999999999", "9000000000",
                     "9000000001", "9223372036854", "18446744073709",
                     "9223372036854775808", "18446744073709551616",
                     "92233720368547758087"}}

\* Fractional parts of at most six digits.
FracParts ==
    {Str(s) : s \in {"", ".", ".1", ".5", ".000001", ".999999", ".55161",
                     ".775807", ".775808"}}

\* Fractional parts of seven digits.
SeventhParts ==
    {Str(s) : s \in {".0000004", ".0000005", ".9999994", ".9999995"}}

\* The digits after the seventh: none, zeros or nines.
Extras == {[i \in 1..k |-> d] : k \in 0..MaxExtra, d \in {"0", "9"}}

PlainLiterals ==
    {sign \o zeros \o int \o frac :
        sign \in Signs, zeros \in ZeroPrefixes, int \in IntParts,
        frac \in FracParts \cup {sev \o extra : sev \in SeventhParts,
                                                extra \in Extras}}

\* The empty string, malformed literals, scientific notation, special
\* tokens.
OtherLiterals ==
    {Str(s) : s \in
       {"", "+", "-", ".", "..", "1.1.", "1..", "1x", "x", "1 ", "+-1", "--1",
        "1-", "1+1", "1,5", "$1",
        "1e", "1e-", "1e+", ".e-1", ".e2", "0.2e", "e5", "1e5x", "12e3.5",
        "1e1", "1E1", "1e0", "0e5", "-0e5", "1e-6", "1e-7", "5e-7", "-5e-7",
        "0.1e10", "0.1E10", ".1e10", "1e10", "-1e10", "9000000000e1",
        "625e-3", "1.5e+2", "-.5E+1", "1e-20", "1e-100", "1e-400", "1e400",
        "123.764538e6", "3.7e10", "9e9", "-9e9", "9.0000000000000005e9",
        "4503599627370496.5e-6", "9.223372036854775808123e-2",
        "9223372036854775808123e-20",
        "9223372036854775808.223372036854775808e-10",
        "1e+9223372036854775807", "1e-9223372036854775809",
        "nan", "NaN", "NAN", "+nan", "-nan", "nano",
        "inf", "Inf", "-Inf", "+INF", "infinity", "Infinity", "-Infinity",
        "+INFINITY", "infin", "in"}}

Literals == PlainLiterals \cup OtherLiterals

\* Amounts: whole * 10^6 + fraction with either sign, in and out of bounds,
\* and the ends of int64.
WholeParts == {<<0>>, <<1>>, <<10>>, <<22>>, <<8, 999, 999, 999>>, <<9, 0, 0, 0>>}

Fractions == {0, 1, 10, 100000, 123450, 222223, 500000, 999999}

Amounts ==
    {ZOf(neg, NAdd(NMul(w, precision.mag), NOfInt(f))) :
        neg \in BOOLEAN, w \in WholeParts, f \in Fractions}
    \cup {MaxInt64, MinInt64}

\* The amounts and the operands of the arithmetic: zero, small ones of
\* either sign, the bounds of the amounts and the ends of int64.
ArithAmounts ==
    {ZOf(neg, mag) :
        neg \in BOOLEAN,
        mag \in {<<0>>, <<1>>, <<3>>, <<5>>,
                 <<4, 500, 000, 000, 000, 000>>,
                 <<9, 000, 000, 000, 000, 000>>,
                 NSub(TwoPow63, <<1>>)}}
    \cup {MinInt64}

Operands ==
    {ZOf(neg, mag) :
        neg \in BOOLEAN,
        mag \in {<<0>>, <<1>>, <<2>>, <<3>>, NSub(TwoPow63, <<1>>)}}
    \cup {MinInt64}

(***************************************************************************)
(* The state machine: a caller of the package.  It holds an amount (micro) *)
(* or a string (amount) and calls the package with it; a call that returns *)
(* without an error hands its result to the next call.                     *)
(*   pc       "idle" between calls; "scan" in parseFloatStringInt's loop;  *)
(*            "float" when the exact parser has returned an error and      *)
(*            parseFloatString goes on to parseFloatStringFloat; "done"    *)
(*            when the call has its result; "panic" when the program has   *)
(*            stopped with a run-time panic                                *)
(*   op       the function called last, prev the one called before it      *)
(*   amount   the string the caller holds                                  *)
(*   micro    the amount the caller holds                                  *)
(*   have     which of the two the caller holds: "string", "micro", "none" *)
(*   operand  the second argument of the arithmetic call                   *)
(*   st       the locals of parseFloatStringInt                            *)
(*   ret      the result of the call: Result(val, err); val is a string    *)
(*            for ToFloatString and an amount otherwise                    *)
(*   calls    the number of calls that have returned                       *)
(*   bounded  whether the run started from an amount within the bounds     *)
(***************************************************************************)
VARIABLES pc, op, prev, amount, micro, have, operand, st, ret, calls, bounded

vars == <<pc, op, prev, amount, micro, have, operand, st, ret, calls, bounded>>

\* The locals of parseFloatStringInt outside a call.
NoScan == ScanInit(<<"0">>)

InitCommon ==
    /\ pc = "idle"
    /\ op = "none"
    /\ prev = "none"
    /\ operand = ZZero
    /\ st = NoScan
    /\ ret = Result(ZZero, nil)
    /\ calls = 0

Init ==
    /\ InitCommon
    /\ \/ have = "string" /\ amount \in Literals /\ micro = ZZero
       \/ have = "micro" /\ amount = <<>> /\ micro \in Amounts
    /\ bounded = (checkNumberBounds(micro) = nil)

\* Lines 76-78 and 159-162, 198-217: the call, up to the loop.
CallFromFloatString ==
    /\ pc = "idle"
    /\ have = "string"
    /\ calls < MaxCalls
    /\ op' = "FromFloatString"
    /\ prev' = op
    /\ IF Len(amount) = 0
       THEN /\ pc' = "done"
            /\ ret' = Result(ZZero, ErrInvalidInput)
            /\ st' = st
       ELSE /\ pc' = "scan"
            /\ ret' = ret
            /\ st' = ScanInit(amount)
    /\ UNCHANGED <<amount, micro, have, operand, calls, bounded>>

\* Lines 219-265: one iteration of the loop.
ScanStep ==
    /\ pc = "scan"
    /\ st.err = nil
    /\ st.i <= Len(amount)
    /\ st' = [ScanChar(st, amount[st.i]) EXCEPT !.i = @ + 1]
    /\ UNCHANGED <<pc, op, prev, amount, micro, have, operand, ret, calls, bounded>>

\* Lines 266-297 and 163-168: parseFloatStringInt returns; with an error,
\* parseFloatString goes on to parseFloatStringFloat.
ScanFinish ==
    /\ pc = "scan"
    /\ st.err # nil \/ st.i > Len(amount)
    /\ ret' = IF st.err # nil THEN Result(ZZero, st.err) ELSE ScanEnd(st)
    /\ pc' = IF ret'.err = nil THEN "done" ELSE "float"
    /\ UNCHANGED <<op, prev, amount, micro, have, operand, st, calls, bounded>>

\* Lines 165 and 171-195.
FloatFallback ==
    /\ pc = "float"
    /\ \E r \in parseFloatStringFloat(amount) : ret' = r
    /\ pc' = "done"
    /\ UNCHANGED <<op, prev, amount, micro, have, operand, st, calls, bounded>>

\* Lines 80-113.
CallToFloatString ==
    /\ pc = "idle"
    /\ have = "micro"
    /\ calls < MaxCalls
    /\ op' = "ToFloatString"
    /\ prev' = op
    /\ ret' = ToFloatString(micro)
    /\ pc' = "done"
    /\ UNCHANGED <<amount, micro, have, operand, st, calls, bounded>>

\* Lines 31-37.
CallMarshalJSON ==
    /\ pc = "idle"
    /\ have = "micro"
    /\ calls < MaxCalls
    /\ op' = "MarshalJSON"
    /\ prev' = op
    /\ ret' = MarshalJSON(micro)
    /\ pc' = "done"
    /\ UNCHANGED <<amount, micro, have, operand, st, calls, bounded>>

\* Lines 67-74.
CallValue ==
    /\ pc = "idle"
    /\ have = "micro"
    /\ calls < MaxCalls
    /\ op' = "Value"
    /\ prev' = op
    /\ ret' = Value(micro)
    /\ pc' = "done"
    /\ UNCHANGED <<amount, micro, have, operand, st, calls, bounded>>

\* The call returns.  The caller keeps the result of a call that returned no
\* error, and stops at an error; the bytes of MarshalJSON and the value of
\* Value go to the encoder and to the driver.
Return ==
    /\ pc = "done"
    /\ pc' = "idle"
    /\ calls' = calls + 1
    /\ st' = NoScan
    /\ IF ret.err # nil \/ op \in {"MarshalJSON", "Value"}
       THEN have' = "none" /\ UNCHANGED <<amount, micro>>
       ELSE IF op = "ToFloatString"
       THEN have' = "string" /\ amount' = ret.val /\ micro' = micro
       ELSE have' = "micro" /\ micro' = ret.val /\ amount' = amount
    /\ UNCHANGED <<op, prev, operand, ret, bounded>>

Next ==
    \/ CallFromFloatString
    \/ ScanStep
    \/ ScanFinish
    \/ FloatFallback
    \/ CallToFloatString
    \/ CallMarshalJSON
    \/ CallValue
    \/ Return

Spec == Init /\ [][Next]_vars

(***************************************************************************)
(* The arithmetic: runs of Add, Mul and DivideAndRound on an amount.       *)
(***************************************************************************)
ArithInit ==
    /\ InitCommon
    /\ have = "micro"
    /\ amount = <<>>
    /\ micro \in ArithAmounts
    /\ bounded = (checkNumberBounds(micro) = nil)

CallAdd ==
    /\ pc = "idle"
    /\ have = "micro"
    /\ calls < MaxCalls
    /\ \E b \in Operands :
         /\ operand' = b
         /\ ret' = Add(micro, b)
    /\ op' = "Add"
    /\ prev' = op
    /\ pc' = "done"
    /\ UNCHANGED <<amount, micro, have, st, calls, bounded>>

CallMul ==
    /\ pc = "idle"
    /\ have = "micro"
    /\ calls < MaxCalls
    /\ \E b \in Operands :
         /\ operand' = b
         /\ ret' = Mul(micro, b)
    /\ op' = "Mul"
    /\ prev' = op
    /\ pc' = "done"
    /\ UNCHANGED <<amount, micro, have, st, calls, bounded>>

\* Lines 144-149.  The function returns no error; a zero divisor stops the
\* program at the division (panic: integer divide by zero).
CallDivideAndRound ==
    /\ pc = "idle"
    /\ have = "micro"
    /\ calls < MaxCalls
    /\ \E b \in Operands :
         /\ operand' = b
         /\ IF b = ZZero
            THEN pc' = "panic" /\ ret' = ret
            ELSE pc' = "done" /\ ret' = Result(DivideAndRound(micro, b), nil)
    /\ op' = "DivideAndRound"
    /\ prev' = op
    /\ UNCHANGED <<amount, micro, have, st, calls, bounded>>

ArithNext ==
    \/ CallAdd
    \/ CallMul
    \/ CallDivideAndRound
    \/ Return

ArithSpec == ArithInit /\ [][ArithNext]_vars
(***************************************************************************)
(* The deserialisers UnmarshalJSON and Scan and their receiver.            *)
(***************************************************************************)
\* A nil src, and for Scan a src that is not a []uint8.
NilSrc == <<"<nil>">>

OtherSrc == <<"<int64>">>

\* strings.Trim(str, "\"") (line 44).
TrimQuotes(str) ==
    LET kept == {i \in 1..Len(str) : str[i] # "\""}
    IN  IF kept = {} THEN <<>>
        ELSE SubSeq(str, CHOOSE i \in kept : \A j \in kept : i <= j,
                         CHOOSE i \in kept : \A j \in kept : j <= i)

\* ReceivedAlways: the receiver assigned whatever the error.
ReceivedAlways(receiver, r) == r.val

\* Lines 45-48 and 58-62: the receiver is assigned after the test of err.
Received(receiver, r) == IF r.err # nil THEN receiver ELSE r.val

\* The receivers and the inputs of the deserialisers.
Receivers ==
    {ZZero, ZNat(<<1, 500, 000>>), ZNeg(ZOne),
     ZNat(<<9, 000, 000, 000, 000, 000>>)}

Texts ==
    {Str(s) : s \in {"", "0", "2.5", "-0.000001", "9000000000",
                     "9000000000.000001", "-9000000001", "abc", "1.2.3",
                     "nan", "1e3"}}

Quoted == {<<"\"">> \o t \o <<"\"">> : t \in Texts}

ReceiverInit ==
    /\ InitCommon
    /\ have = "micro"
    /\ amount = <<>>
    /\ micro \in Receivers
    /\ bounded = TRUE

\* Lines 39-50.  The result holds the receiver after the call and the error
\* returned.
CallUnmarshalJSON ==
    /\ pc = "idle"
    /\ have = "micro"
    /\ calls < MaxCalls
    /\ \E src \in {NilSrc} \cup Texts \cup Quoted :
         /\ amount' = src
         /\ IF src = NilSrc
            THEN ret' = Result(micro, nil)
            ELSE \E r \in FromFloatString(TrimQuotes(src)) :
                    ret' = Result(Received(micro, r), r.err)
    /\ micro' = ret'.val
    /\ op' = "UnmarshalJSON"
    /\ prev' = op
    /\ pc' = "done"
    /\ UNCHANGED <<have, operand, st, calls, bounded>>

\* Lines 52-65.  A src that is neither nil nor a []uint8 stops the program
\* at the type assertion of line 57.
CallScan ==
    /\ pc = "idle"
    /\ have = "micro"
    /\ calls < MaxCalls
    /\ \E src \in {NilSrc, OtherSrc} \cup Texts :
         /\ amount' = src
         /\ IF src = NilSrc
            THEN pc' = "done" /\ ret' = Result(micro, nil)
            ELSE IF src = OtherSrc
            THEN pc' = "panic" /\ ret' = ret
            ELSE /\ pc' = "done"
                 /\ \E r \in FromFloatString(src) :
                       ret' = Result(Received(micro, r), r.err)
    /\ micro' = IF pc' = "done" THEN ret'.val ELSE micro
    /\ op' = "Scan"
    /\ prev' = op
    /\ UNCHANGED <<have, operand, st, calls, bounded>>

\* The caller of a deserialiser goes on with the receiver, whatever the
\* error, and without the src.
ReceiverReturn ==
    /\ pc = "done"
    /\ pc' = "idle"
    /\ calls' = calls + 1
    /\ amount' = <<>>
    /\ UNCHANGED <<op, prev, micro, have, operand, st, ret, bounded>>

ReceiverNext ==
    \/ CallUnmarshalJSON
    \/ CallScan
    \/ ReceiverReturn

ReceiverSpec == ReceiverInit /\ [][ReceiverNext]_vars

(***************************************************************************)
(* FromBigRat: the rational micro / operand, formatted by FloatString(7)   *)
(* of math/big and parsed by FromFloatString.                              *)
(***************************************************************************)
\* The digits of n, with zeros in front up to seven digits.
SevenDigits(n) ==
    [i \in 1..(7 - Len(DecimalDigits(n))) |-> "0"] \o Chars(DecimalDigits(n))

\* The string of the integer part q and the seven-digit fraction r.
FixedPoint(neg, q, r) ==
    (IF neg THEN <<"-">> ELSE <<>>)
        \o Chars(DecimalDigits(q)) \o <<".">> \o SevenDigits(r)

\* The fraction r rounded up when twice the remainder r2 reaches the
\* denominator, with the carry into the integer part q.
RoundedFixedPoint(neg, q, r, r2, den) ==
    IF NLeq(den, NMulInt(r2, 2))
    THEN IF NLeq(Pow10(7), NAdd(r, <<1>>))
         THEN FixedPoint(neg, NAdd(q, <<1>>), NSub(NAdd(r, <<1>>), Pow10(7)))
         ELSE FixedPoint(neg, q, NAdd(r, <<1>>))
    ELSE FixedPoint(neg, q, r)

\* The fraction from the remainder of num / den scaled by 10^7.
FractionOf(neg, q, scaled, den) ==
    RoundedFixedPoint(neg, q, scaled[1], scaled[2], den)

\* FloatString(7) of the big.Rat num / den, den > 0: seven digits after the
\* point, the last one rounded to nearest, halves away from zero.
FloatString7(num, den) ==
    FractionOf(num.neg, NDivMod(num.mag, den)[1],
               NDivMod(NMul(NDivMod(num.mag, den)[2], Pow10(7)), den), den)

\* Lines 115-123: the results FromBigRat may return.
FromBigRat(num, den) == FromFloatString(FloatString7(num, den))

\* The numerators and the denominators of the rationals.
Numerators ==
    {ZOf(neg, mag) :
        neg \in BOOLEAN,
        mag \in {<<0>>, <<1>>, <<5>>, <<44>>, <<45>>, <<123, 456, 789>>,
                 <<9, 000, 000, 000>>, <<9, 000, 000, 001>>}}

Denominators ==
    {<<1>>, <<2>>, <<3>>, <<7>>, <<1, 000, 000>>, <<20, 000, 000>>,
     <<100, 000, 000>>}

RatInit ==
    /\ pc = "idle"
    /\ op = "none"
    /\ prev = "none"
    /\ st = NoScan
    /\ ret = Result(ZZero, nil)
    /\ calls = 0
    /\ have = "rat"
    /\ amount = <<>>
    /\ micro \in Numerators
    /\ operand \in {ZNat(den) : den \in Denominators}
    /\ bounded = TRUE

\* Lines 115-117: the string of the rational, and FromFloatString up to
\* the loop of parseFloatStringInt.
CallFromBigRat ==
    /\ pc = "idle"
    /\ have = "rat"
    /\ calls < MaxCalls
    /\ amount' = FloatString7(micro, operand.mag)
    /\ st' = ScanInit(amount')
    /\ op' = "FromBigRat"
    /\ prev' = op
    /\ pc' = "scan"
    /\ UNCHANGED <<micro, have, operand, ret, calls, bounded>>

RatNext ==
    \/ CallFromBigRat
    \/ ScanStep
    \/ ScanFinish
    \/ FloatFallback
    \/ Return

RatSpec == RatInit /\ [][RatNext]_vars

(***************************************************************************)
(* What a decimal literal denotes, read off the string independently of    *)
(* the parser: the vocabulary of the claims about parsing.                 *)
(***************************************************************************)
\* An optional sign, then digits with at most one '.', at least one digit.
IsPlainLiteral(s) ==
    /\ \A i \in 1..Len(Unsigned(s)) :
         IsDigit(Unsigned(s)[i]) \/ Unsigned(s)[i] = "."
    /\ Cardinality({i \in 1..Len(s) : s[i] = "."}) <= 1
    /\ \E i \in 1..Len(s) : IsDigit(s[i])

\* The index of the '.' of a plain literal, Len + 1 without one.
DotAt(s) ==
    IF \E i \in 1..Len(s) : s[i] = "."
    THEN CHOOSE i \in 1..Len(s) : s[i] = "."
    ELSE Len(s) + 1

\* The digits before and after the '.' of a plain literal.
IntDigits(s) == DigitsOf(SubSeq(s, 1, DotAt(s) - 1))

FracDigits(s) == DigitsOf(SubSeq(s, DotAt(s) + 1, Len(s)))

\* The literal's magnitude is more than 9000000000.
ExceedsBound(s) ==
    \/ NLess(<<9, 000, 000, 000>>, NOfDigits(IntDigits(s)))
    \/ /\ NOfDigits(IntDigits(s)) = <<9, 000, 000, 000>>
       /\ \E i \in 1..Len(FracDigits(s)) : FracDigits(s)[i] # 0

\* s * (I * 10^6 + d1..d6 + (1 if d7 >= 5 else 0)) for a plain literal with
\* seven fractional digits or more.
RoundedOnSeventh(s) ==
    ZOf(s[1] = "-",
        NAdd(NAdd(NMul(NOfDigits(IntDigits(s)), <<1, 000, 000>>),
                  NOfDigits(SubSeq(FracDigits(s), 1, 6))),
             IF FracDigits(s)[7] >= 5 THEN <<1>> ELSE <<0>>))

\* Malformed: empty, a second '.', a character after the optional sign that
\* is neither a digit nor '.', or no digit at all.
IsMalformed(s) ==
    \/ s = <<>>
    \/ Cardinality({i \in 1..Len(s) : s[i] = "."}) > 1
    \/ \E i \in 1..Len(Unsigned(s)) :
         ~IsDigit(Unsigned(s)[i]) /\ Unsigned(s)[i] # "."
    \/ ~ \E i \in 1..Len(s) : IsDigit(s[i])

\* A mantissa followed by 'e' or 'E' and an exponent.
IsScientific(s) ==
    /\ IsPlainLiteral(SubSeq(s, 1, MantEnd(Unsigned(s)) + Len(s) - Len(Unsigned(s)) - 1))
    /\ MantEnd(Unsigned(s)) < Len(Unsigned(s))
    /\ Unsigned(s)[MantEnd(Unsigned(s))] \in {"e", "E"}
    /\ Exponent(SubSeq(Unsigned(s), MantEnd(Unsigned(s)) + 1, Len(Unsigned(s)))).ok

\* inf, infinity or nan in any letter case, with any sign.
IsSpecialToken(s) ==
    ToLower(Unsigned(s)) \in {Str("inf"), Str("infinity"), Str("nan")}

\* A call of FromFloatString has its result.
Parsed == pc = "done" /\ op = "FromFloatString"

(***************************************************************************)
(* The claims.                                                             *)
(***************************************************************************)
\* C1: round trip.  ToFloatString succeeds for every amount within the
\* bounds, and FromFloatString of the string it returned gives that amount
\* back with no error.
C1_RoundTrip ==
    /\ (pc = "done" /\ op = "ToFloatString" /\ checkNumberBounds(micro) = nil)
         => ret.err = nil
    /\ (Parsed /\ prev = "ToFloatString") => ret = Result(micro, nil)

\* C1, witness: a negative amount above -1000000, formatted as "-0.…", has
\* been parsed back.
C1_Witness ==
    /\ Parsed
    /\ prev = "ToFloatString"
    /\ Len(amount) > 3
    /\ SubSeq(amount, 1, 3) = Str("-0.")
    /\ ret.val = micro

\* C2: every plain decimal literal whose magnitude exceeds 9000000000 is
\* answered with ErrOverBounds, never with a value.
C2_OverflowTotal ==
    (Parsed /\ IsPlainLiteral(amount) /\ ExceedsBound(amount))
        => ret = Result(ZZero, ErrOverBounds)

\* C3: an accepted literal with seven fractional digits or more is rounded
\* half away from zero on the seventh digit alone.
C3_SeventhDigit ==
    (/\ Parsed
     /\ IsPlainLiteral(amount)
     /\ Len(FracDigits(amount)) >= 7
     /\ ret.err = nil)
        => ret.val = RoundedOnSeventh(amount)

\* C4: a malformed input is answered with ErrInvalidInput and the zero
\* amount.
C4_MalformedRejected ==
    (Parsed /\ IsMalformed(amount)) => ret = Result(ZZero, ErrInvalidInput)

\* C5: scientific notation and the tokens inf, infinity and nan are never
\* converted to an amount: parsing them returns an error.
C5_ScientificRejected ==
    (Parsed /\ (IsScientific(amount) \/ IsSpecialToken(amount)))
        => ret.err \in {ErrOverBounds, ErrInvalidInput}

(***************************************************************************)
(* The vocabulary of the claims about the arithmetic.                      *)
(***************************************************************************)
ErrDivisionByZero == "ErrDivisionByZero"

\* An amount within [-9000000000000000, 9000000000000000].
InBounds(v) == ZLeq(smallestAmount, v) /\ ZLeq(v, largestAmount)

\* The magnitude of a / b rounded to the nearest integer, ties away from
\* zero, from the quotient and the remainder of |a| by |b|.
NearestMagnitude(qr, d) ==
    IF NLeq(d, NMulInt(qr[2], 2)) THEN NAdd(qr[1], <<1>>) ELSE qr[1]

\* a / b rounded to the nearest integer, ties away from zero, for b # 0.
NearestAwayFromZero(a, b) ==
    ZOf(a.neg # b.neg, NearestMagnitude(NDivMod(a.mag, b.mag), b.mag))

\* A call of the arithmetic has returned.
Returned(name) == pc = "done" /\ op = name

\* C6: add returns the mathematical sum with no error when the sum is a
\* signed 64-bit value, and Overflow with the zero amount otherwise.
C6_AddChecked ==
    Returned("Add") =>
        ret = IF IsInt64(ZAdd(micro, operand))
              THEN Result(ZAdd(micro, operand), nil)
              ELSE Result(ZZero, ErrOverflow)

\* C6, witness: both kinds of overflow are tried; here the largest signed
\* 64-bit amount plus one has been answered with Overflow.
C6_Witness ==
    /\ Returned("Add")
    /\ micro = MaxInt64
    /\ operand = ZOne
    /\ ret = Result(ZZero, ErrOverflow)

\* C7: multiply by zero gives zero with no error; otherwise it returns the
\* mathematical product with no error when the product is a signed 64-bit
\* value, and Overflow otherwise.
C7_MulChecked ==
    Returned("Mul") =>
        ret = IF operand = ZZero THEN Result(ZZero, nil)
              ELSE IF IsInt64(ZMul(micro, operand))
                   THEN Result(ZMul(micro, operand), nil)
                   ELSE Result(ZZero, ErrOverflow)

\* C8: DivideAndRound by zero returns the error DivisionByZero and does
\* not stop the program.
C8_DivisionByZero ==
    (op = "DivideAndRound" /\ operand = ZZero /\ pc # "idle")
        => pc = "done" /\ ret.err = ErrDivisionByZero

\* C9: for an amount within the bounds and a divisor other than zero,
\* DivideAndRound returns the quotient rounded to the nearest integer, ties
\* away from zero, whatever the signs.
C9_HalfAwayFromZero ==
    (Returned("DivideAndRound") /\ InBounds(micro))
        => ret = Result(NearestAwayFromZero(micro, operand), nil)

\* C9, witness: a tie with operands of different signs, -1 / 2, has been
\* rounded to -1.
C9_Witness ==
    /\ Returned("DivideAndRound")
    /\ micro = ZNeg(ZOne)
    /\ operand = ZTwo
    /\ ret.val = ZNeg(ZOne)

\* C10: starting within the bounds, every amount that add, multiply or
\* DivideAndRound returns with no error is within the bounds (the operands
\* of add are both amounts within the bounds, the scalar of multiply and
\* the divisor are any integers).
C10_ArithmeticBounded ==
    (/\ pc = "done"
     /\ op \in {"Add", "Mul", "DivideAndRound"}
     /\ InBounds(micro)
     /\ op = "Add" => InBounds(operand)
     /\ ret.err = nil)
        => InBounds(ret.val)

\* C10, amended: DivideAndRound of an amount within the bounds returns an
\* amount within the bounds; add and multiply check the signed 64-bit range
\* only, so their results can leave the bounds with no error.
C10_DivisionBounded ==
    (Returned("DivideAndRound") /\ InBounds(micro)) => InBounds(ret.val)

\* C10, witness: in a sequence of operations, the largest amount divided
\* by -1 has given the smallest amount.
C10_Witness ==
    /\ Returned("DivideAndRound")
    /\ calls > 0
    /\ micro = ZNat(<<9, 000, 000, 000, 000, 000>>)
    /\ operand = ZNeg(ZOne)
    /\ ret.val = ZOf(TRUE, <<9, 000, 000, 000, 000, 000>>)

(***************************************************************************)
(* The vocabulary of the claims about formatting.                          *)
(***************************************************************************)
\* ToFloatString has its result for an amount within the bounds.
Formatted == pc = "done" /\ op = "ToFloatString" /\ InBounds(micro)

\* How many '-' a string has.
Minuses(s) == Cardinality({i \in 1..Len(s) : s[i] = "-"})

\* The micro-units a string of digits with at most six fractional digits
\* spells, whatever its sign.
MicrosOf(s) ==
    NAdd(NMul(NOfDigits(IntDigits(s)), <<1, 000, 000>>),
         NMul(NOfDigits(FracDigits(s)), Pow10(6 - Len(FracDigits(s)))))

\* C11: the string of an amount within the bounds begins with '-', the only
\* one, exactly when the amount is negative; an amount between -1000000 and
\* 0 gives "-0." and its fractional digits.
C11_SignKept ==
    Formatted =>
        /\ Len(ret.val) > 0
        /\ Minuses(ret.val) = (IF ZLess(micro, ZZero) THEN 1 ELSE 0)
        /\ ZLess(micro, ZZero) => ret.val[1] = "-"
        /\ (ZLess(micro, ZZero) /\ NLess(micro.mag, <<1, 000, 000>>))
             => /\ SubSeq(ret.val, 1, 3) = Str("-0.")
                /\ MicrosOf(ret.val) = micro.mag

\* C11, witness: -1 has been formatted as "-0.000001".
C11_Witness ==
    /\ Formatted
    /\ micro = ZNeg(ZOne)
    /\ ret.val = Str("-0.000001")

\* C12: the string of a multiple of 1000000 is its integer part alone; of
\* any other amount it is the integer part, '.', and one to six fractional
\* digits, the remainder padded to six digits without its trailing zeros,
\* so it ends neither with '0' nor with '.'.
C12_MinimalOutput ==
    Formatted =>
        /\ Len(ret.val) > 0
        /\ MicrosOf(ret.val) = micro.mag
        /\ IntDigits(ret.val) = DecimalDigits(NDivMod(micro.mag, <<1, 000, 000>>)[1])
        /\ IF NDivMod(micro.mag, <<1, 000, 000>>)[2] = <<0>>
           THEN \A i \in 1..Len(ret.val) : ret.val[i] # "."
           ELSE /\ Cardinality({i \in 1..Len(ret.val) : ret.val[i] = "."}) = 1
                /\ Len(FracDigits(ret.val)) \in 1..6
                /\ Last(ret.val) \notin {"0", "."}

\* C12, witness: 10000000 has been formatted as "10", and the trailing
\* zeros of an integer part stay.
C12_Witness ==
    /\ Formatted
    /\ micro = ZNat(<<10, 000, 000>>)
    /\ ret.val = Str("10")

\* C13: ToFloatString, MarshalJSON and Value return ErrOverBounds and an
\* empty result for an amount outside the bounds, a string and no error for
\* one within them.
C13_BoundsGated ==
    (pc = "done" /\ op \in {"ToFloatString", "MarshalJSON", "Value"})
        => IF InBounds(micro)
           THEN ret.err = nil /\ Len(ret.val) > 0
           ELSE ret = Result(<<>>, ErrOverBounds)

\* C13, witness: MarshalJSON of the smallest int64 has returned the error.
C13_Witness ==
    /\ pc = "done"
    /\ op = "MarshalJSON"
    /\ micro = MinInt64
    /\ ret = Result(<<>>, ErrOverBounds)

(***************************************************************************)
(* The vocabulary of the claims that relate the parses of two literals.    *)
(***************************************************************************)
\* The literal with k more '0' right after its optional sign.
WithZeros(s, k) ==
    SubSeq(s, 1, Len(s) - Len(Unsigned(s)))
        \o [i \in 1..k |-> "0"] \o Unsigned(s)

\* How many zeros are put in front: one, and more than a uint64 has
\* digits.
ZerosTried == {1, 20}

\* The results with zeros in front are the results without them: the one
\* the state holds, or, where the float64 arithmetic leaves the result to
\* the build, the same ones.
SameResults(with) ==
    /\ ret \in with
    /\ Cardinality(with) > 1 => with = parseFloatString(amount)

\* The result the state holds is what parsing the literal with more zeros
\* in front gives, whichever the number of zeros.
SameWithZeros ==
    \A k \in ZerosTried : SameResults(parseFloatString(WithZeros(amount, k)))

\* C14: zeros put in front of the integer part of any input change neither
\* the result nor the error.
C14_LeadingZerosFree == Parsed => SameWithZeros

\* C14, amended: zeros put in front of the integer part of a plain decimal
\* or scientific-notation literal, one with a digit in its mantissa, change
\* neither the result nor the error.
C14_LeadingZerosOfNumbers ==
    (Parsed /\ (IsPlainLiteral(amount) \/ IsScientific(amount)))
        => SameWithZeros

\* C14, witness: a literal the exact parser refuses for its magnitude,
\* 18446744073709551616, has been parsed and is refused with zeros in
\* front as well.
C14_Witness ==
    /\ Parsed
    /\ amount = Str("18446744073709551616")
    /\ ret = Result(ZZero, ErrOverBounds)
    /\ SameWithZeros

\* The literal with k more '0' at its end.
WithTrailingZeros(s, k) == s \o [i \in 1..k |-> "0"]

\* How many zeros are put at the end of a literal: as many as take it to
\* seven fractional digits, and two more.
TrailingTried(s) ==
    {Max(7 - Len(FracDigits(s)), 1), Max(7 - Len(FracDigits(s)), 1) + 2}

\* C15: zeros put at the end of the fractional part of an accepted literal
\* with a '.', taking it to seven fractional digits or more, leave the
\* amount as it is and do not turn it into an error.
C15_TrailingZerosFree ==
    (/\ Parsed
     /\ IsPlainLiteral(amount)
     /\ \E i \in 1..Len(amount) : amount[i] = "."
     /\ ret.err = nil)
        => \A k \in TrailingTried(amount) :
              SameResults(parseFloatString(WithTrailingZeros(amount, k)))

(***************************************************************************)
(* The claim about the receiver of UnmarshalJSON and Scan.                 *)
(***************************************************************************)
\* The string a deserialiser parses: the src, for UnmarshalJSON without
\* its quotes.
TextOf(name, src) == IF name = "UnmarshalJSON" THEN TrimQuotes(src) ELSE src

\* C16: a call of UnmarshalJSON or Scan with a nil src returns no error and
\* leaves the receiver as it was; a call whose parse fails returns that
\* error and leaves the receiver as it was; the receiver is overwritten,
\* with the parsed amount, only when the parse succeeds.
C16_ReceiverKept ==
    [][(pc = "idle" /\ pc' = "done" /\ op' \in {"UnmarshalJSON", "Scan"})
          => /\ amount' = NilSrc => ret'.err = nil /\ micro' = micro
             /\ ret'.err # nil
                  => /\ micro' = micro
                     /\ \E r \in parseFloatString(TextOf(op', amount')) :
                           r.err = ret'.err
             /\ (ret'.err = nil /\ amount' # NilSrc)
                  => Result(micro', nil)
                        \in parseFloatString(TextOf(op', amount'))]_vars

\* C16, witness: UnmarshalJSON of a literal beyond the bounds has returned
\* ErrOverBounds and the receiver still holds 1500000.
C16_Witness ==
    /\ pc = "done"
    /\ op = "UnmarshalJSON"
    /\ amount = Str("\"9000000000.000001\"")
    /\ ret.err = ErrOverBounds
    /\ micro = ZNat(<<1, 500, 000>>)

(***************************************************************************)
(* The claims about the steps of the exact parser.                         *)
(***************************************************************************)
\* The digits the scan has put into the accumulator when it is about to read
\* the character i: the integer digits and the first seven fractional
\* digits among the characters before i.
Incorporated(s, i) ==
    IntDigits(SubSeq(s, 1, i - 1))
        \o SubSeq(FracDigits(SubSeq(s, 1, i - 1)), 1,
                  Min(7, Len(FracDigits(SubSeq(s, 1, i - 1)))))

\* C17: at every step of the scan that has not stopped with an error, the
\* accumulator is the exact value of the digits incorporated so far, and is
\* at most 2^63 - 1 for a positive sign and at most 2^63 for a negative
\* one: no multiplication by 10 and no addition of a digit wraps unseen.
C17_AccumulatorExact ==
    (pc = "scan" /\ st.err = nil)
        => /\ st.result = NOfDigits(Incorporated(amount, st.i))
           /\ NLeq(st.result, IF st.sign = 1
                              THEN NSub(TwoPow63, <<1>>)
                              ELSE TwoPow63)

\* C17, witness: with 1844674407370955161 in the accumulator the digit 6,
\* which takes it to 2^64, has been refused with ErrOverBounds.
C17_Witness ==
    /\ pc = "scan"
    /\ st.err = ErrOverBounds
    /\ st.result = <<1, 844, 674, 407, 370, 955, 161>>
    /\ amount[st.i - 1] = "6"

\* C18: an accepted literal without a leading '-' gives an amount that is
\* not negative, and one with a leading '-' an amount that is not positive.
C18_SignFollowsLiteral ==
    (Parsed /\ ret.err = nil)
        => IF amount[1] = "-"
           THEN ZLeq(ret.val, ZZero)
           ELSE ZLeq(ZZero, ret.val)

\* C19: parseFloatStringFloat is consulted only after an error of
\* parseFloatStringInt, and a plain decimal literal that
\* parseFloatStringInt answers with ErrOverBounds is answered with an error
\* by parseFloatString.
C19_FallbackKeepsErrors ==
    /\ pc = "float" => ret.err # nil /\ ret = parseFloatStringInt(amount)
    /\ (/\ Parsed
        /\ IsPlainLiteral(amount)
        /\ parseFloatStringInt(amount).err = ErrOverBounds)
           => ret.err # nil

(***************************************************************************)
(* The claim about FromBigRat.                                             *)
(***************************************************************************)
\* C20: for a rational micro / operand of magnitude at most 9000000000,
\* FromBigRat returns the rational times 10^6 rounded once, to the nearest
\* integer, halves away from zero.
C20_RoundsOnce ==
    (/\ pc = "done"
     /\ op = "FromBigRat"
     /\ NLeq(micro.mag, NMul(<<9, 000, 000, 000>>, operand.mag)))
        => ret = Result(NearestAwayFromZero(ZMul(micro, precision), operand),
                        nil)
====
